---- MODULE Spec2Model ----
(***************************************************************************)
(* jupyterlab-marimo: the conversion request handler                       *)
(* (jupyterlab_marimo/handlers.py).                                        *)
(*                                                                         *)
(* Strings are sequences of one-character strings, so that startswith,     *)
(* endswith, slicing, split, strip and join are computed character by      *)
(* character.  A fixed literal of the code (an error message, "marimo")    *)
(* is one token of such a sequence.                                        *)
(***************************************************************************)
EXTENDS Integers, Sequences, FiniteSets, TLC

VARIABLES
    pc,         \* "idle": a handler instance awaits its request; "done": post returned
    request,    \* the request: body kind, sourcePath, direction
    has_cm,     \* settings hold a contents_manager with a root_dir
    isfile,     \* os.path.isfile(join(root, sourcePath)) on this filesystem
    responses,  \* the responses finished by the handler, in order
    calls,      \* the argv of every subprocess.run call made
    paths,      \* the full paths resolved by os.path.join, in order
    proc,       \* what the external converter did when invoked
    child,      \* the child process: "none", "running", "exited", "killed"
    escaped,    \* an exception left post for the host framework
    derived     \* output paths derived in turn (DeriveSpec only)

vars == <<pc, request, has_cm, isfile, responses, calls, paths, proc, child,
          escaped, derived>>

----------------------------------------------------------------------------
(* Bounds *)

MaxStem == 3
MaxErr == 2

(* timeout=30 of both subprocess.run calls *)
TIMEOUT == 30

----------------------------------------------------------------------------
(* Strings *)

IPYNB == <<".", "i", "p", "y", "n", "b">>
MOPY == <<".", "m", "o", ".", "p", "y">>
PY == <<".", "p", "y">>
SEP == "/"

StemChars == {"a", "-", "/", "."}
Stems == UNION {[1..n -> StemChars] : n \in 0..MaxStem}
Suffixes == {<<>>, IPYNB, MOPY, PY}
Paths == {s \o x : s \in Stems, x \in Suffixes}

ErrChars == {" ", "b"}
Stderrs == UNION {[1..n -> ErrChars] : n \in 0..MaxErr}
Whitespace == {" "}

(* str.startswith *)
startswith(s, p) ==
    /\ Len(s) >= Len(p)
    /\ SubSeq(s, 1, Len(p)) = p

(* a suffix test that only compares the last three characters *)
endswith_last3(s, suf) ==
    LET t == IF Len(suf) > 3 THEN SubSeq(suf, Len(suf) - 2, Len(suf)) ELSE suf
    IN  /\ Len(s) >= Len(t)
        /\ SubSeq(s, Len(s) - Len(t) + 1, Len(s)) = t

(* str.endswith *)
endswith(s, suf) ==
    /\ Len(s) >= Len(suf)
    /\ SubSeq(s, Len(s) - Len(suf) + 1, Len(s)) = suf

(* s[:-n] *)
drop_last(s, n) == SubSeq(s, 1, Len(s) - n)

(* str.split(sep) *)
RECURSIVE split(_, _)
split(s, sep) ==
    IF \A i \in 1..Len(s) : s[i] # sep
    THEN <<s>>
    ELSE LET i == CHOOSE k \in 1..Len(s) :
                      s[k] = sep /\ \A j \in 1..(k - 1) : s[j] # sep
         IN  <<SubSeq(s, 1, i - 1)>> \o split(SubSeq(s, i + 1, Len(s)), sep)

(* os.path.basename (posix): what follows the last separator *)
basename(path) ==
    LET seps == {i \in 1..Len(path) : path[i] = SEP}
        last == IF seps = {} THEN 0 ELSE CHOOSE i \in seps : \A j \in seps : j <= i
    IN  SubSeq(path, last + 1, Len(path))

(* os.path.join (posix) of two parts *)
join(a, p) ==
    IF startswith(p, <<SEP>>) THEN p
    ELSE IF a = <<>> \/ endswith(a, <<SEP>>) THEN a \o p
    ELSE a \o <<SEP>> \o p

(* str.strip *)
RECURSIVE lstrip(_)
lstrip(s) ==
    IF s # <<>> /\ Head(s) \in Whitespace THEN lstrip(Tail(s)) ELSE s

RECURSIVE rstrip(_)
rstrip(s) ==
    IF s # <<>> /\ s[Len(s)] \in Whitespace THEN rstrip(SubSeq(s, 1, Len(s) - 1)) ELSE s

strip(s) == rstrip(lstrip(s))

----------------------------------------------------------------------------
(* Values of the request and of the environment *)

None == [t |-> "none", s |-> <<>>]
Num == [t |-> "num", s |-> <<>>]
Str(s) == [t |-> "str", s |-> s]

SourcePaths == {None, Num} \cup {Str(p) : p \in Paths}
Directions == {"to_marimo", "from_marimo", "sideways", "absent"}

(* the body of the request: a JSON object, another JSON value, no body at *)
(* all, or text the parser rejects with the named exception              *)
Bodies == {"object", "array", "empty", "bad:JSONDecodeError", "bad:HTTPError"}

NoRequest == [body |-> "empty", sourcePath |-> None, direction |-> "absent"]

Requests ==
    {[body |-> "object", sourcePath |-> sp, direction |-> d] :
        sp \in SourcePaths, d \in Directions}
    \cup {[body |-> b, sourcePath |-> None, direction |-> "absent"] :
        b \in Bodies \ {"object"}}

(* root_dir of the contents manager, and os.getcwd() *)
CM_ROOT == <<"/", "r">>
CWD == <<"/", "w">>

NoProc == [kind |-> "none", runtime |-> 0, rc |-> 0, stderr |-> <<>>]

(* what the external converter does when run: the executable is missing, *)
(* spawning fails otherwise, it exits in time with a code and stderr, or *)
(* it is still running when the timeout expires                          *)
Outcomes ==
    {[kind |-> "enoent", runtime |-> 0, rc |-> 0, stderr |-> <<>>],
     [kind |-> "oserror", runtime |-> 0, rc |-> 0, stderr |-> <<>>],
     [kind |-> "run", runtime |-> TIMEOUT + 1, rc |-> 0, stderr |-> <<>>]}
    \cup {[kind |-> "run", runtime |-> 1, rc |-> c, stderr |-> e] :
            c \in {0, 1}, e \in Stderrs}

----------------------------------------------------------------------------
(* The result of running (part of) the handler *)

NoExc == [cls |-> "none", msg |-> <<>>]
Exc(cls, msg) == [cls |-> cls, msg |-> msg]

Start ==
    [responses |-> <<>>, calls |-> <<>>, paths |-> <<>>, proc |-> NoProc,
     child |-> "none", exc |-> NoExc]

(* json.dumps({"success": False, "error": error}) *)
ErrorBody(error) ==
    [success |-> FALSE, keys |-> {"success", "error"}, outputPath |-> <<>>,
     error |-> error]

(* json.dumps({"success": True, "outputPath": output_path}) *)
SuccessBody(output_path) ==
    [success |-> TRUE, keys |-> {"success", "outputPath"},
     outputPath |-> output_path, error |-> <<>>]

(* self.set_status(status); self.finish(body) -- the status is 200 when *)
(* set_status is not called                                             *)
finish(r, status, body) ==
    [r EXCEPT !.responses = Append(@, [status |-> status, body |-> body])]

raise(r, cls, msg) == [r EXCEPT !.exc = Exc(cls, msg)]

(* Python truth value of a JSON value: None and "" are false *)
truthy(v) == v.t = "num" \/ (v.t = "str" /\ v.s # <<>>)

----------------------------------------------------------------------------
(* _validate_path *)

(* the check of the basename alone, without the loop over the components *)
_validate_path_basename_only(path) ==
    IF ~truthy(path)
    THEN [ok |-> FALSE, err |-> <<"Path cannot be empty">>, exc |-> NoExc]
    ELSE IF path.t # "str"
    THEN [ok |-> FALSE, err |-> <<>>,
          exc |-> Exc("TypeError", <<"expected str, bytes or os.PathLike object, not int">>)]
    ELSE IF startswith(basename(path.s), <<"-">>)
    THEN [ok |-> FALSE, err |-> <<"File names starting with '-' are not allowed">>,
          exc |-> NoExc]
    ELSE [ok |-> TRUE, err |-> <<>>, exc |-> NoExc]

_validate_path(path) ==
    IF ~truthy(path)
    THEN [ok |-> FALSE, err |-> <<"Path cannot be empty">>, exc |-> NoExc]
    ELSE IF path.t # "str"
    THEN \* os.path.basename of a value that is no string
         [ok |-> FALSE, err |-> <<>>,
          exc |-> Exc("TypeError", <<"expected str, bytes or os.PathLike object, not int">>)]
    ELSE IF startswith(basename(path.s), <<"-">>)
    THEN [ok |-> FALSE, err |-> <<"File names starting with '-' are not allowed">>,
          exc |-> NoExc]
    ELSE LET parts == split(path.s, SEP)
         IN  IF \E i \in 1..Len(parts) : startswith(parts[i], <<"-">>)
             THEN [ok |-> FALSE,
                   err |-> <<"Path components starting with '-' are not allowed">>,
                   exc |-> NoExc]
             ELSE [ok |-> TRUE, err |-> <<>>, exc |-> NoExc]

----------------------------------------------------------------------------
(* The external converter *)

(* subprocess.run(argv, capture_output=True, text=True, timeout=30): the   *)
(* child that outlives the timeout is killed and waited for before         *)
(* TimeoutExpired is raised                                                *)
subprocess_run(argv, oc) ==
    IF oc.kind = "enoent"
    THEN [exc |-> Exc("FileNotFoundError",
                      <<"[Errno 2] No such file or directory: 'marimo'">>),
          returncode |-> 0, stderr |-> <<>>, child |-> "none"]
    ELSE IF oc.kind = "oserror"
    THEN [exc |-> Exc("PermissionError", <<"[Errno 13] Permission denied: 'marimo'">>),
          returncode |-> 0, stderr |-> <<>>, child |-> "none"]
    ELSE IF oc.runtime > TIMEOUT
    THEN [exc |-> Exc("TimeoutExpired", <<"Command timed out after 30 seconds">>),
          returncode |-> 0, stderr |-> <<>>, child |-> "killed"]
    ELSE [exc |-> NoExc, returncode |-> oc.rc, stderr |-> oc.stderr,
          child |-> "exited"]

(* _convert_to_marimo without its except subprocess.TimeoutExpired clause *)
_convert_to_marimo_no_timeout_clause(source_path, output_path, oc) ==
    LET argv == <<<<"marimo">>, <<"convert">>, source_path, <<"-o">>, output_path>>
        result == subprocess_run(argv, oc)
        out(success, error) ==
            [success |-> success, error |-> error, argv |-> argv,
             child |-> result.child]
    IN  IF result.exc.cls = "FileNotFoundError"
        THEN out(FALSE, <<"marimo CLI not found. Please ensure marimo is installed.">>)
        ELSE IF result.exc.cls # "none"
        THEN out(FALSE, <<"Conversion error: ">> \o result.exc.msg)
        ELSE IF result.returncode # 0
        THEN LET error_msg == IF result.stderr # <<>> THEN strip(result.stderr)
                              ELSE <<"Unknown conversion error">>
             IN  out(FALSE, <<"Conversion failed: ">> \o error_msg)
        ELSE out(TRUE, <<>>)

_convert_to_marimo(source_path, output_path, oc) ==
    LET argv == <<<<"marimo">>, <<"convert">>, source_path, <<"-o">>, output_path>>
        result == subprocess_run(argv, oc)
        out(success, error) ==
            [success |-> success, error |-> error, argv |-> argv,
             child |-> result.child]
    IN  IF result.exc.cls = "FileNotFoundError"
        THEN out(FALSE, <<"marimo CLI not found. Please ensure marimo is installed.">>)
        ELSE IF result.exc.cls = "TimeoutExpired"
        THEN out(FALSE, <<"Conversion timed out after 30 seconds">>)
        ELSE IF result.exc.cls # "none"
        THEN out(FALSE, <<"Conversion error: ">> \o result.exc.msg)
        ELSE IF result.returncode # 0
        THEN LET error_msg == IF result.stderr # <<>> THEN strip(result.stderr)
                              ELSE <<"Unknown conversion error">>
             IN  out(FALSE, <<"Conversion failed: ">> \o error_msg)
        ELSE out(TRUE, <<>>)

(* _convert_from_marimo reporting stderr as it is, with no fallback *)
_convert_from_marimo_raw_stderr(source_path, output_path, oc) ==
    LET argv == <<<<"marimo">>, <<"export">>, <<"ipynb">>, source_path, <<"-o">>,
                  output_path>>
        result == subprocess_run(argv, oc)
        out(success, error) ==
            [success |-> success, error |-> error, argv |-> argv,
             child |-> result.child]
    IN  IF result.exc.cls = "FileNotFoundError"
        THEN out(FALSE, <<"marimo CLI not found. Please ensure marimo is installed.">>)
        ELSE IF result.exc.cls = "TimeoutExpired"
        THEN out(FALSE, <<"Export timed out after 30 seconds">>)
        ELSE IF result.exc.cls # "none"
        THEN out(FALSE, <<"Export error: ">> \o result.exc.msg)
        ELSE IF result.returncode # 0
        THEN out(FALSE, <<"Export failed: ">> \o result.stderr)
        ELSE out(TRUE, <<>>)

_convert_from_marimo(source_path, output_path, oc) ==
    LET argv == <<<<"marimo">>, <<"export">>, <<"ipynb">>, source_path, <<"-o">>,
                  output_path>>
        result == subprocess_run(argv, oc)
        out(success, error) ==
            [success |-> success, error |-> error, argv |-> argv,
             child |-> result.child]
    IN  IF result.exc.cls = "FileNotFoundError"
        THEN out(FALSE, <<"marimo CLI not found. Please ensure marimo is installed.">>)
        ELSE IF result.exc.cls = "TimeoutExpired"
        THEN out(FALSE, <<"Export timed out after 30 seconds">>)
        ELSE IF result.exc.cls # "none"
        THEN out(FALSE, <<"Export error: ">> \o result.exc.msg)
        ELSE IF result.returncode # 0
        THEN LET error_msg == IF result.stderr # <<>> THEN strip(result.stderr)
                              ELSE <<"Unknown export error">>
             IN  out(FALSE, <<"Export failed: ">> \o error_msg)
        ELSE out(TRUE, <<>>)

----------------------------------------------------------------------------
(* ConvertHandler.post *)

(* self.get_json_body(): the parsed body, or the parser's exception *)
get_json_body(req) ==
    IF req.body = "bad:JSONDecodeError"
    THEN [exc |-> Exc("JSONDecodeError", <<"Expecting value: line 1 column 1 (char 0)">>),
          data |-> "none"]
    ELSE IF req.body = "bad:HTTPError"
    THEN [exc |-> Exc("HTTPError",
                      <<"HTTP 400: Bad Request (Invalid JSON in body of request)">>),
          data |-> "none"]
    ELSE [exc |-> NoExc, data |-> req.body]

(* contents_manager.root_dir when the settings have one, else os.getcwd() *)
root_dir_of(cm) == IF cm THEN CM_ROOT ELSE CWD

(* a test of the source file that never fails *)
source_missing_never(isf) == FALSE

(* not os.path.isfile(full_source_path) *)
source_missing(isf) == ~isf

(* an output path that keeps the last character of the old extension *)
output_path_off_by_one(source_path, direction) ==
    IF direction = "to_marimo"
    THEN drop_last(source_path, 5) \o MOPY
    ELSE drop_last(source_path, 5) \o IPYNB

(* an output path that appends the extension without removing the old one *)
output_path_appended(source_path, direction) ==
    IF direction = "to_marimo"
    THEN source_path \o MOPY
    ELSE source_path \o IPYNB

(* output_path = source_path[:-6] + ".mo.py" / ".ipynb" *)
output_path(source_path, direction) ==
    IF direction = "to_marimo"
    THEN drop_last(source_path, 6) \o MOPY
    ELSE drop_last(source_path, 6) \o IPYNB

(* the converter's result taken into the handler's *)
converted(r, oc, conv, src, out) ==
    [r EXCEPT !.calls = Append(@, conv.argv),
              !.paths = <<src, out>>,
              !.proc = oc,
              !.child = conv.child]

(* the answer to the converter's result *)
respond(r, conv, out_path) ==
    IF conv.success
    THEN finish(r, 200, SuccessBody(out_path))
    ELSE finish(r, 500, ErrorBody(conv.error))

(* the body of the try statement *)
post_try(req, cm, isf, oc) ==
    LET body == get_json_body(req)
        source_path == req.sourcePath
        direction == req.direction
        root_dir == root_dir_of(cm)
    IN
    IF body.exc.cls # "none"
    THEN raise(Start, body.exc.cls, body.exc.msg)
    ELSE IF body.data = "empty"
    THEN raise(Start, "AttributeError", <<"'NoneType' object has no attribute 'get'">>)
    ELSE IF body.data # "object"
    THEN raise(Start, "AttributeError", <<"'list' object has no attribute 'get'">>)
    ELSE IF ~truthy(source_path)
    THEN finish(Start, 400, ErrorBody(<<"sourcePath is required">>))
    ELSE IF direction \notin {"to_marimo", "from_marimo"}
    THEN finish(Start, 400,
                ErrorBody(<<"direction must be 'to_marimo' or 'from_marimo'">>))
    ELSE
    LET v == _validate_path(source_path) IN
    IF v.exc.cls # "none"
    THEN raise(Start, v.exc.cls, v.exc.msg)
    ELSE IF ~v.ok
    THEN finish(Start, 400, ErrorBody(v.err))
    ELSE
    LET full_source_path == join(root_dir, source_path.s)
        resolved == [Start EXCEPT !.paths = <<full_source_path>>]
    IN
    IF source_missing(isf)
    THEN finish(resolved, 400,
                ErrorBody(<<"Source file not found: ">> \o source_path.s))
    ELSE IF direction = "to_marimo"
    THEN IF ~endswith(source_path.s, IPYNB)
         THEN finish(resolved, 400,
                     ErrorBody(<<"Source file must be a .ipynb file for to_marimo conversion">>))
         ELSE LET out_path == output_path(source_path.s, direction)
                  full_output_path == join(root_dir, out_path)
                  conv == _convert_to_marimo(full_source_path, full_output_path, oc)
              IN  respond(converted(resolved, oc, conv, full_source_path,
                                    full_output_path), conv, out_path)
    ELSE IF ~endswith(source_path.s, MOPY)
         THEN finish(resolved, 400,
                     ErrorBody(<<"Source file must be a .mo.py file for from_marimo conversion">>))
         ELSE LET out_path == output_path(source_path.s, direction)
                  full_output_path == join(root_dir, out_path)
                  conv == _convert_from_marimo(full_source_path, full_output_path, oc)
              IN  respond(converted(resolved, oc, conv, full_source_path,
                                    full_output_path), conv, out_path)

(* except json.JSONDecodeError *)
except_JSONDecodeError(r) ==
    [finish(r, 400, ErrorBody(<<"Invalid JSON body">>)) EXCEPT !.exc = NoExc]

(* an except clause that lets the exception go on *)
except_reraise(r) == r

(* except Exception as e *)
except_Exception(r) ==
    [finish(r, 500, ErrorBody(r.exc.msg)) EXCEPT !.exc = NoExc]

(* the try statement with its except clauses *)
post(req, cm, isf, oc) ==
    LET r == post_try(req, cm, isf, oc)
    IN  IF r.exc.cls = "none" THEN r
        ELSE IF r.exc.cls = "JSONDecodeError" THEN except_JSONDecodeError(r)
        ELSE except_Exception(r)

----------------------------------------------------------------------------
(* The filesystem: a path that ends in a separator names no regular file *)
CanBeFile(req, cm) ==
    /\ req.body = "object"
    /\ req.sourcePath.t = "str"
    /\ LET full == join(root_dir_of(cm), req.sourcePath.s)
       IN  full # <<>> /\ full[Len(full)] # SEP

Init ==
    /\ pc = "idle"
    /\ request = NoRequest
    /\ has_cm = TRUE
    /\ isfile = FALSE
    /\ responses = <<>>
    /\ calls = <<>>
    /\ paths = <<>>
    /\ proc = NoProc
    /\ child = "none"
    /\ escaped = FALSE
    /\ derived = <<>>

(* One request is handled by post, from its arrival to post's return *)
Post ==
    /\ pc = "idle"
    /\ \E req \in Requests, cm \in BOOLEAN, isf \in BOOLEAN, oc \in Outcomes :
          /\ isf => CanBeFile(req, cm)
          /\ LET r == post(req, cm, isf, oc)
             IN  /\ request' = req
                 /\ has_cm' = cm
                 /\ isfile' = isf
                 /\ responses' = r.responses
                 /\ calls' = r.calls
                 /\ paths' = r.paths
                 /\ proc' = r.proc
                 /\ child' = r.child
                 /\ escaped' = (r.exc.cls # "none")
    /\ pc' = "done"
    /\ UNCHANGED derived

(* The next request gets a handler instance of its own *)
NextRequest ==
    /\ pc = "done"
    /\ pc' = "idle"
    /\ request' = NoRequest
    /\ has_cm' = TRUE
    /\ isfile' = FALSE
    /\ responses' = <<>>
    /\ calls' = <<>>
    /\ paths' = <<>>
    /\ proc' = NoProc
    /\ child' = "none"
    /\ escaped' = FALSE
    /\ UNCHANGED derived

Next == Post \/ NextRequest

Spec == Init /\ [][Next]_vars

----------------------------------------------------------------------------
(* The derivation of the output path, applied in turn to its own result *)

Ext(direction) == IF direction = "to_marimo" THEN IPYNB ELSE MOPY

DeriveInit ==
    /\ pc = "derive"
    /\ request \in {[body |-> "object", sourcePath |-> Str(s \o Ext(d)), direction |-> d] :
                        s \in Stems, d \in {"to_marimo", "from_marimo"}}
    /\ has_cm = TRUE
    /\ isfile = FALSE
    /\ responses = <<>>
    /\ calls = <<>>
    /\ paths = <<>>
    /\ proc = NoProc
    /\ child = "none"
    /\ escaped = FALSE
    /\ derived = <<>>

Current == IF derived = <<>> THEN request.sourcePath.s ELSE derived[Len(derived)]

derive_to_marimo ==
    /\ pc = "derive"
    /\ Len(derived) < 2
    /\ endswith(Current, IPYNB)
    /\ derived' = Append(derived, output_path(Current, "to_marimo"))
    /\ UNCHANGED <<pc, request, has_cm, isfile, responses, calls, paths, proc,
                   child, escaped>>

derive_from_marimo ==
    /\ pc = "derive"
    /\ Len(derived) < 2
    /\ endswith(Current, MOPY)
    /\ derived' = Append(derived, output_path(Current, "from_marimo"))
    /\ UNCHANGED <<pc, request, has_cm, isfile, responses, calls, paths, proc,
                   child, escaped>>

DeriveNext == derive_to_marimo \/ derive_from_marimo

DeriveSpec == DeriveInit /\ [][DeriveNext]_vars

----------------------------------------------------------------------------
(* Vocabulary of the properties, stated on the request and the response    *)
(* without the handler's own tests                                         *)

Done == pc = "done"
StrPath == request.body = "object" /\ request.sourcePath.t = "str"
SourcePath == request.sourcePath.s
ValidDirection == request.direction \in {"to_marimo", "from_marimo"}

(* a segment of p, cut at the separators, begins with a dash *)
HasDashSegment(p) ==
    \E i \in 1..Len(p) : p[i] = "-" /\ (i = 1 \/ p[i - 1] = SEP)

HasSuffix(s, suf) ==
    /\ Len(s) >= Len(suf)
    /\ \A i \in 1..Len(suf) : s[Len(s) - Len(suf) + i] = suf[i]

HasPrefix(s, pre) ==
    /\ Len(s) >= Len(pre)
    /\ \A i \in 1..Len(pre) : s[i] = pre[i]

(* needle is a contiguous part of s *)
Contains(s, needle) ==
    \E k \in 0..(Len(s) - Len(needle)) :
        \A i \in 1..Len(needle) : s[k + i] = needle[i]

(* t is s without its leading and trailing whitespace *)
IsTrimOf(t, s) ==
    /\ t = <<>> \/ (t[1] \notin Whitespace /\ t[Len(t)] \notin Whitespace)
    /\ \E k \in 0..(Len(s) - Len(t)) :
          /\ \A i \in 1..Len(t) : s[k + i] = t[i]
          /\ \A i \in 1..k : s[i] \in Whitespace
          /\ \A i \in (k + Len(t) + 1)..Len(s) : s[i] \in Whitespace

(* the components of a path once "", "." and ".." are resolved *)
RECURSIVE Norm(_, _)
Norm(parts, acc) ==
    IF parts = <<>> THEN acc
    ELSE LET h == Head(parts)
         IN  IF h = <<>> \/ h = <<".">> THEN Norm(Tail(parts), acc)
             ELSE IF h = <<".", ".">>
             THEN Norm(Tail(parts),
                       IF acc = <<>> THEN acc ELSE SubSeq(acc, 1, Len(acc) - 1))
             ELSE Norm(Tail(parts), Append(acc, h))

(* full names root or something below it *)
Contained(root, full) ==
    LET r == Norm(split(root, SEP), <<>>)
        f == Norm(split(full, SEP), <<>>)
    IN  Len(f) >= Len(r) /\ SubSeq(f, 1, Len(r)) = r

OneResponse(status) ==
    /\ Len(responses) = 1
    /\ responses[1].status = status

Error == responses[1].body.error
NotInvoked == calls = <<>> /\ child = "none"
Invoked == Done /\ calls # <<>>
ExitedWith(codes) ==
    Invoked /\ proc.kind = "run" /\ proc.runtime <= TIMEOUT /\ proc.rc \in codes
TimedOut == Invoked /\ proc.kind = "run" /\ proc.runtime > TIMEOUT

ExtensionMessage ==
    IF request.direction = "to_marimo"
    THEN <<"Source file must be a .ipynb file for to_marimo conversion">>
    ELSE <<"Source file must be a .mo.py file for from_marimo conversion">>

NotFoundMessage == <<"Source file not found: ">> \o SourcePath

(* the request passed the required-field check and the path-safety check *)
PassedValidation ==
    /\ Done /\ StrPath /\ ValidDirection
    /\ SourcePath # <<>>
    /\ ~HasDashSegment(SourcePath)

WrongExtension == PassedValidation /\ ~HasSuffix(SourcePath, Ext(request.direction))
RightExtension == StrPath /\ ValidDirection /\ HasSuffix(SourcePath, Ext(request.direction))

----------------------------------------------------------------------------
(* C1: a request whose sourcePath has a basename or a path segment that    *)
(* begins with '-' is answered with status 400, and the external converter *)
(* is not invoked for it.                                                  *)
C1_DashRejected ==
    (Done /\ StrPath /\ HasDashSegment(SourcePath))
        => (OneResponse(400) /\ NotInvoked)

(* a dash-led directory in front of an existing file of the right extension *)
C1_Witness ==
    /\ Done /\ StrPath /\ ValidDirection /\ isfile
    /\ HasDashSegment(SourcePath)
    /\ ~HasPrefix(basename(SourcePath), <<"-">>)
    /\ RightExtension
    /\ OneResponse(400)

(* C2: for every request that reaches path resolution, the full source     *)
(* path and the full output path are under the root directory, and so is   *)
(* every path the external converter is invoked on.                        *)
C2_UnderRoot ==
    Done => /\ \A i \in 1..Len(paths) : Contained(root_dir_of(has_cm), paths[i])
            /\ \A c \in 1..Len(calls) :
                  \A a \in 1..Len(calls[c]) :
                      HasPrefix(calls[c][a], <<SEP>>)
                          => Contained(root_dir_of(has_cm), calls[c][a])

(* C3 as stated: a validated request whose sourcePath does not end in the  *)
(* extension of its direction is answered 400 with the direction-specific  *)
(* extension message, whether or not the source file exists, and the       *)
(* converter is not invoked.                                               *)
C3_ExtensionMessageAlways ==
    WrongExtension
        => (OneResponse(400) /\ Error = ExtensionMessage /\ NotInvoked)

(* C3 as amended: such a request is answered 400 without invoking the      *)
(* converter; the message is the direction-specific extension message when *)
(* the source file exists and "Source file not found" when it does not.    *)
C3_ExtensionRejected ==
    WrongExtension
        => /\ OneResponse(400)
           /\ NotInvoked
           /\ isfile => Error = ExtensionMessage
           /\ ~isfile => Error = NotFoundMessage

C3_Witness ==
    /\ WrongExtension /\ isfile
    /\ SourcePath = <<"a">> \o PY
    /\ request.direction = "from_marimo"
    /\ OneResponse(400)
    /\ Error = ExtensionMessage

(* C4: a request whose body is not valid structured data, whose sourcePath *)
(* is empty or absent, or whose direction is not one of the two known      *)
(* values is answered 400, never 500, without invoking the converter;      *)
(* malformed JSON gets the message "Invalid JSON body".                    *)
C4_BadRequestIs400 ==
    (Done /\ (\/ request.body # "object"
              \/ request.sourcePath = None
              \/ request.sourcePath = Str(<<>>)
              \/ ~ValidDirection))
        => /\ OneResponse(400)
           /\ NotInvoked
           /\ request.body \in {"bad:JSONDecodeError", "bad:HTTPError"}
                 => Error = <<"Invalid JSON body">>

(* C5: every run of post finishes exactly one response, and no exception   *)
(* leaves post.                                                            *)
C5_ExactlyOneResponse ==
    Done => (Len(responses) = 1 /\ ~escaped)

(* an exception raised inside the pipeline, and the converter's failure *)
C5_Witness ==
    \/ Done /\ request.sourcePath = Num /\ ValidDirection /\ OneResponse(500)
    \/ Invoked /\ proc.kind = "oserror" /\ OneResponse(500)

(* C6: when the converter runs past the timeout, the response is 500 with  *)
(* the timeout message of the direction, and the child process has been    *)
(* killed by the time post returns.                                        *)
C6_TimeoutKillsChild ==
    TimedOut
        => /\ OneResponse(500)
           /\ Error = IF request.direction = "to_marimo"
                      THEN <<"Conversion timed out after 30 seconds">>
                      ELSE <<"Export timed out after 30 seconds">>
           /\ child = "killed"

C6_Witness ==
    /\ TimedOut
    /\ request.direction = "to_marimo"
    /\ OneResponse(500)
    /\ child = "killed"

(* C7: when the converter exits with a non-zero code, the response is 500  *)
(* with success false and an error that contains the trimmed stderr, or    *)
(* the fallback text of the direction when stderr is empty.                *)
C7_NonZeroExit ==
    ExitedWith({1})
        => /\ OneResponse(500)
           /\ responses[1].body.success = FALSE
           /\ "error" \in responses[1].body.keys
           /\ IF proc.stderr = <<>>
              THEN Contains(Error, IF request.direction = "to_marimo"
                                   THEN <<"Unknown conversion error">>
                                   ELSE <<"Unknown export error">>)
              ELSE \E t \in Stderrs : IsTrimOf(t, proc.stderr) /\ Contains(Error, t)

(* stderr with whitespace around its text *)
C7_Witness ==
    /\ ExitedWith({1})
    /\ request.direction = "from_marimo"
    /\ proc.stderr = <<" ", "b">>
    /\ Error = <<"Export failed: ", "b">>

(* C8: when the converter exits with code 0, the response is 200 with      *)
(* success true, no error field, and an outputPath that is the sourcePath  *)
(* with '.ipynb' replaced by '.mo.py' (to_marimo) or '.mo.py' by '.ipynb'  *)
(* (from_marimo).                                                          *)
C8_Success ==
    ExitedWith({0})
        => /\ OneResponse(200)
           /\ responses[1].body.success = TRUE
           /\ responses[1].body.keys = {"success", "outputPath"}
           /\ \E s \in Stems :
                 \/ /\ request.direction = "to_marimo"
                    /\ SourcePath = s \o IPYNB
                    /\ responses[1].body.outputPath = s \o MOPY
                 \/ /\ request.direction = "from_marimo"
                    /\ SourcePath = s \o MOPY
                    /\ responses[1].body.outputPath = s \o IPYNB

C8_Witness ==
    /\ ExitedWith({0})
    /\ SourcePath = <<"a", "/", "a">> \o MOPY
    /\ responses[1].body.outputPath = <<"a", "/", "a">> \o IPYNB

(* C9 as stated: a sourcePath that ends in the extension of its direction  *)
(* and names no existing regular file is answered 400 with "Source file    *)
(* not found", and the converter is not invoked.                           *)
C9_NotFoundAlways ==
    (Done /\ RightExtension /\ ~isfile)
        => (OneResponse(400) /\ Error = NotFoundMessage /\ NotInvoked)

(* C9 as amended: the same for a sourcePath that passes the path-safety    *)
(* check, that is, none of whose segments begins with '-'.                 *)
C9_NotFound ==
    (Done /\ RightExtension /\ ~HasDashSegment(SourcePath) /\ ~isfile)
        => (OneResponse(400) /\ Error = NotFoundMessage /\ NotInvoked)

C9_Witness ==
    /\ Done /\ RightExtension /\ ~isfile
    /\ SourcePath = <<"a">> \o IPYNB
    /\ OneResponse(400)
    /\ Error = NotFoundMessage

(* C10: for every stem s the to_marimo derivation of s.ipynb is s.mo.py    *)
(* and the from_marimo derivation of s.mo.py is s.ipynb, and deriving one  *)
(* way and then the other gives back the path started from.                *)
C10_DerivationInvertible ==
    pc = "derive"
        => /\ Len(derived) >= 1 =>
                \E s \in Stems :
                    \/ /\ request.direction = "to_marimo"
                       /\ SourcePath = s \o IPYNB
                       /\ derived[1] = s \o MOPY
                    \/ /\ request.direction = "from_marimo"
                       /\ SourcePath = s \o MOPY
                       /\ derived[1] = s \o IPYNB
           /\ Len(derived) >= 2 => derived[2] = SourcePath

C10_Witness ==
    /\ pc = "derive"
    /\ Len(derived) = 2
    /\ request.direction = "from_marimo"
    /\ derived[1] = <<"a", ".">> \o IPYNB
    /\ derived[2] = SourcePath

====
